---- MODULE Spec2Model ----
(***************************************************************************)
(* Background healing of an erasure set (cmd/global-heal.go):              *)
(* healErasureSet, deepHealObject and the background heal sequence they    *)
(* feed.  Object keys are the naturals 1..NumKeys, ordered as the names    *)
(* they stand for; 0 is the empty string of an absent object or version.  *)
(***************************************************************************)
EXTENDS Integers, Sequences, FiniteSets, TLC

\* ---- bounds of the model
NumKeys == 2        \* object keys of a bucket
MaxPolls == 2       \* one-second polls counted while the sequence is absent
MaxPasses == 2      \* healErasureSet passes over the same set
MaxDeep == 2        \* deepHealObject requests
MaxEndpoints == 2   \* endpoints in a list of disks to heal
MaxWrites == 2      \* updates of the sequence's counters

\* ---- program quantities
GOMAXPROCS == 2              \* capacity of sourceCh and respCh
SetDriveCount == 3           \* obj.SetDriveCount(): the disks of the set
backendEncryptedFile == -1   \* object name of the backend-encrypted marker

Disks == 1..SetDriveCount
Keys == 1..NumKeys
BucketNames == {"b1", "b2"}
minioMetaBucket == ".minio.sys"
minioConfigPrefix == ".minio.sys/config"
bucketConfigPrefix == ".minio.sys/buckets"

\* The version lists a disk may hold for a key: version IDs, newest first.
VersionSets == {<<1>>, <<2, 1>>}
\* What a disk holds for a key: <<>> when the key is not on the disk.
Cells == {<<>>} \cup VersionSets

NoEntry == [Name |-> 0, Versions |-> <<>>]

\* FileInfoVersions of key k with version IDs ids: every version carries the
\* object name and its own version ID.
FileInfoVersions(k, ids) ==
  [Name |-> k,
   Versions |-> [i \in 1..Len(ids) |-> [Name |-> k, VersionID |-> ids[i]]]]

RECURSIVE ListFrom(_, _)
\* The listing of a disk holding data (a function Keys -> Cells), from key k
\* on: one entry per key the disk has, in strictly increasing key order.
ListFrom(data, k) ==
  IF k > NumKeys THEN <<>>
  ELSE IF data[k] = <<>> THEN ListFrom(data, k + 1)
  ELSE <<FileInfoVersions(k, data[k])>> \o ListFrom(data, k + 1)

Listing(data) == ListFrom(data, 1)

VARIABLES
  bgSeqExists,   \* registry: a sequence is registered under bgHealingUUID
  sourceCh,      \* bgSeq.sourceCh: the bounded task queue
  respCh,        \* bgSeq.respCh: the shared result channel
  seqWaiting,    \* results the sequence itself still awaits (direct sources)
  recorded,      \* the tasks whose result has been recorded
  seqDone,       \* the sequence's cancellation scope is cancelled
  objLayer,      \* newObjectLayerFn() returns an object layer
  disks,         \* the pass's disks argument: "ok", "nil" or "bad" per disk
  diskData,      \* what each disk holds: diskData[d][k] \in Cells
  ctxDone,       \* the pass's ctx is cancelled
  pc,            \* position of healErasureSet
  ret,           \* what healErasureSet returned
  buckets,       \* the pass's buckets argument
  setDriveCount, \* local of the pass
  polls,         \* one-second waits of the lookup loop so far
  passes,        \* passes started
  bpc,           \* position of each bucket goroutine
  entryChs,      \* per bucket: the opened streams
  entries,       \* per bucket: entries array of the reconciler
  entriesValid,  \* per bucket: entriesValid array of the reconciler
  cur,           \* per bucket: entry being healed and its quorum count
  vi,            \* per bucket: index of the version being queued
  reported,      \* per bucket: what the reconciler returned, in order
  calls,         \* per bucket: the queueHealTask calls, in order
  last,          \* per bucket: the last returned queueHealTask call
  sent,          \* how often each source was sent directly to sourceCh
  deep,          \* the deepHealObject requests, in order
  stateExists,   \* globalBackgroundHealState is not nil
  mutex,         \* the sequence's mutex: "free" or "held"
  scannedItems,  \* sum of the sequence's scannedItemsMap
  lastHealActivity, \* the sequence's lastHealActivity, a two-word time
  wpc,           \* position of the update of the counters under the mutex
  status,        \* locals of getLocalBackgroundHealStatus and its position
  snap           \* what getLocalBackgroundHealStatus returned last

vars == <<bgSeqExists, sourceCh, respCh, seqWaiting, recorded, seqDone,
          objLayer, disks, diskData, ctxDone, pc, ret, buckets, setDriveCount,
          polls, passes, bpc, entryChs, entries, entriesValid, cur, vi,
          reported, calls, last, sent, deep, stateExists, mutex,
          scannedItems, lastHealActivity, wpc, status, snap>>

seqVars == <<sourceCh, respCh, seqWaiting, recorded>>
envVars == <<objLayer, disks, diskData, buckets>>
passVars == <<pc, ret, setDriveCount, polls, passes>>
scanVars == <<entryChs, entries, entriesValid, cur, vi, reported>>
statVars == <<stateExists, mutex, scannedItems, lastHealActivity, wpc, status, snap>>

\* ---- the reconciler (lexicallySortedEntryVersions)

\* A stream: Ch is what the channel still holds, Pushed the entry pushed back
\* by the previous call, Total everything the stream produces in its life.
Stream(d, list) == [Disk |-> d, Ch |-> list, Pushed |-> <<>>, Total |-> list]

Pop(s) ==
  IF s.Pushed # <<>>
  THEN [e |-> s.Pushed[1], ok |-> TRUE, s |-> [s EXCEPT !.Pushed = <<>>]]
  ELSE IF s.Ch # <<>>
  THEN [e |-> Head(s.Ch), ok |-> TRUE, s |-> [s EXCEPT !.Ch = Tail(s.Ch)]]
  ELSE [e |-> NoEntry, ok |-> FALSE, s |-> s]

Push(s, e) == [s EXCEPT !.Pushed = <<e>>]

MinOf(S) == CHOOSE x \in S : \A y \in S : x <= y
MaxOf(S) == CHOOSE x \in S : \A y \in S : x >= y

\* One call of the reconciler on the streams chs.  Every stream is popped
\* (p holds what the pops gave); the least key among the entries read is the
\* key of this step; the streams on a larger key get their entry pushed back.
\* Among the entries on the least key, those with identical version lists
\* form a group; the quorum count is the size of the largest group.
Popped(chs) == [i \in 1..Len(chs) |-> Pop(chs[i])]

LiveOf(p) == {i \in DOMAIN p : p[i].ok}

LeastOf(p) == MinOf({p[i].e.Name : i \in LiveOf(p)})

AtLeastOf(p) == {i \in LiveOf(p) : p[i].e.Name = LeastOf(p)}

GroupOf(p, i) == {j \in AtLeastOf(p) : p[j].e.Versions = p[i].e.Versions}

QuorumOf(p) == MaxOf({Cardinality(GroupOf(p, i)) : i \in AtLeastOf(p)})

WinnersOf(p) ==
  {p[i].e : i \in {j \in AtLeastOf(p) : Cardinality(GroupOf(p, j)) = QuorumOf(p)}}

\* No stream has an entry left.
Exhausted(chs) == \A i \in 1..Len(chs) : ~Pop(chs[i]).ok

\* The entries of the largest groups: the reconciler returns one of them
\* (which one, when two groups are as large, depends on the order in which
\* the listing goroutines appended their streams).
Winners(chs) ==
  IF Exhausted(chs) THEN {} ELSE UNION {WinnersOf(p) : p \in {Popped(chs)}}

\* The returned triple and the arrays and streams the call leaves behind,
\* for the pops p and the winner w.
MergeResult(p, w) ==
  IF LiveOf(p) = {}
  THEN [entry |-> NoEntry, quorumCount |-> 0, ok |-> FALSE,
        entryChs |-> [i \in DOMAIN p |-> p[i].s],
        entries |-> [i \in DOMAIN p |-> p[i].e],
        entriesValid |-> [i \in DOMAIN p |-> FALSE]]
  ELSE [entry |-> w, quorumCount |-> QuorumOf(p), ok |-> TRUE,
        entryChs |-> [i \in DOMAIN p |->
                        IF i \in LiveOf(p) /\ i \notin AtLeastOf(p)
                        THEN Push(p[i].s, p[i].e)
                        ELSE p[i].s],
        entries |-> [i \in DOMAIN p |-> p[i].e],
        entriesValid |-> [i \in DOMAIN p |-> p[i].ok]]

\* The call's results when w is the winner.
lexicallySortedEntryVersions(chs, w) ==
  CHOOSE r \in {MergeResult(p, w) : p \in {Popped(chs)}} : TRUE

\* ---- heal sources and tasks

\* A heal source as queued: who submitted it ("pass", "deep" or the bucket
\* goroutine's bucket), its bucket, object, versionID and scan mode.
healSource(from, bucket, object, versionID, deepScan) ==
  [from |-> from, bucket |-> bucket, object |-> object,
   versionID |-> versionID, deep |-> deepScan]

\* What the heal worker may answer for a task.
HealErrs == {"nil", "errOther"}

\* The errors lines 202-204 tell apart, with the others.
AdmissionErrs == HealErrs \cup {"errObjectNotFound", "errVersionNotFound"}

Cancelled == "Cancelled"

RECURSIVE SeqToSet(_)
SeqToSet(s) == IF s = <<>> THEN {} ELSE {Head(s)} \cup SeqToSet(Tail(s))

\* The sources healErasureSet sends directly.
DirectSources ==
  {healSource("pass", minioMetaBucket, backendEncryptedFile, 0, FALSE),
   healSource("pass", minioConfigPrefix, 0, 0, FALSE),
   healSource("pass", bucketConfigPrefix, 0, 0, FALSE)}
  \cup {healSource("pass", b, 0, 0, FALSE) : b \in BucketNames}

NoTask == healSource("none", "", 0, 0, FALSE)
NoCall == [call |-> NoTask, err |-> "none"]

Full(ch) == Len(ch) >= GOMAXPROCS

\* ---- healErasureSet: finding the background sequence (lines 102-123)

\* A pass starts: fresh locals, no bucket goroutine yet.
BeginPass ==
  /\ passes < MaxPasses
  /\ pc' = "lookup"
  /\ ret' = "none"
  /\ passes' = passes + 1
  /\ polls' = 0
  /\ setDriveCount' = 0
  /\ bpc' = [b \in BucketNames |-> "idle"]
  /\ entryChs' = [b \in BucketNames |-> <<>>]
  /\ entries' = [b \in BucketNames |-> <<>>]
  /\ entriesValid' = [b \in BucketNames |-> <<>>]
  /\ cur' = [b \in BucketNames |-> NoEntry]
  /\ vi' = [b \in BucketNames |-> 0]
  /\ reported' = [b \in BucketNames |-> <<>>]
  /\ calls' = [b \in BucketNames |-> <<>>]
  /\ last' = [b \in BucketNames |-> NoCall]
  /\ sent' = [src \in DOMAIN sent |-> 0]
  /\ UNCHANGED <<bgSeqExists, seqVars, seqDone, envVars, statVars, ctxDone, deep>>

\* getHealSequenceByToken finds the sequence, but there is no object layer.
ObjectLayerNil ==
  /\ pc = "lookup"
  /\ bgSeqExists
  /\ ~objLayer
  /\ pc' = "returned"
  /\ ret' = "errServerNotInitialized"
  /\ UNCHANGED <<bgSeqExists, seqVars, seqDone, envVars, statVars, ctxDone, setDriveCount,
                 polls, passes, bpc, scanVars, calls, last, sent, deep>>

\* A plausible slip: the result of the lookup is not looked at.
SequenceFoundUnchecked ==
  /\ pc = "lookup"
  /\ objLayer
  /\ setDriveCount' = SetDriveCount
  /\ pc' = "send1"
  /\ polls' = 0
  /\ UNCHANGED <<bgSeqExists, seqVars, seqDone, envVars, statVars, ctxDone, ret,
                 passes, bpc, scanVars, calls, last, sent, deep>>

\* getHealSequenceByToken finds the sequence and the object layer is there:
\* the drive count is read and the pass goes on to its first send.
SequenceFound ==
  /\ pc = "lookup"
  /\ bgSeqExists
  /\ objLayer
  /\ setDriveCount' = SetDriveCount
  /\ pc' = "send1"
  /\ polls' = 0
  /\ UNCHANGED <<bgSeqExists, seqVars, seqDone, envVars, statVars, ctxDone, ret,
                 passes, bpc, scanVars, calls, last, sent, deep>>

\* getHealSequenceByToken does not find the sequence: on to the select.
SequenceMissing ==
  /\ pc = "lookup"
  /\ ~bgSeqExists
  /\ pc' = "select"
  /\ UNCHANGED <<bgSeqExists, seqVars, seqDone, envVars, statVars, ctxDone, ret,
                 setDriveCount, polls, passes, bpc, scanVars, calls, last, sent,
                 deep>>

\* case <-ctx.Done(): return nil
PollCancelled ==
  /\ pc = "select"
  /\ ctxDone
  /\ pc' = "returned"
  /\ ret' = "nil"
  /\ UNCHANGED <<bgSeqExists, seqVars, seqDone, envVars, statVars, ctxDone, setDriveCount,
                 polls, passes, bpc, scanVars, calls, last, sent, deep>>

\* case <-time.After(time.Second): continue
PollTimeout ==
  /\ pc = "select"
  /\ polls < MaxPolls
  /\ polls' = polls + 1
  /\ pc' = "lookup"
  /\ UNCHANGED <<bgSeqExists, seqVars, seqDone, envVars, statVars, ctxDone, ret,
                 setDriveCount, passes, bpc, scanVars, calls, last, sent, deep>>

\* ---- healErasureSet: the direct sends (lines 125-150)

\* bgSeq.sourceCh <- src, a plain channel send: it waits while the queue is
\* full and looks at no context.
SendSource(src) ==
  /\ ~Full(sourceCh)
  /\ sourceCh' = Append(sourceCh, src)
  /\ sent' = [sent EXCEPT ![src] = @ + 1]
  /\ UNCHANGED <<respCh, seqWaiting, recorded>>

SendBackendEncrypted ==
  /\ pc = "send1"
  /\ SendSource(healSource("pass", minioMetaBucket, backendEncryptedFile, 0, FALSE))
  /\ pc' = "send2"
  /\ UNCHANGED <<bgSeqExists, seqDone, envVars, statVars, ctxDone, ret, setDriveCount,
                 polls, passes, bpc, scanVars, calls, last, deep>>

\* A plausible slip: the config prefix is not sent.
SendConfigPrefixSkipped ==
  /\ pc = "send2"
  /\ pc' = "send3"
  /\ UNCHANGED <<bgSeqExists, seqVars, seqDone, envVars, statVars, ctxDone, ret,
                 setDriveCount, polls, passes, bpc, scanVars, calls, last,
                 sent, deep>>

SendConfigPrefix ==
  /\ pc = "send2"
  /\ SendSource(healSource("pass", minioConfigPrefix, 0, 0, FALSE))
  /\ pc' = "send3"
  /\ UNCHANGED <<bgSeqExists, seqDone, envVars, statVars, ctxDone, ret, setDriveCount,
                 polls, passes, bpc, scanVars, calls, last, deep>>

\* The third send, and the loop that starts one goroutine per bucket.
SendBucketConfigPrefix ==
  /\ pc = "send3"
  /\ SendSource(healSource("pass", bucketConfigPrefix, 0, 0, FALSE))
  /\ pc' = "wgWait"
  /\ bpc' = [b \in BucketNames |-> IF b \in buckets THEN "send" ELSE "idle"]
  /\ UNCHANGED <<bgSeqExists, seqDone, envVars, statVars, ctxDone, ret, setDriveCount,
                 polls, passes, scanVars, calls, last, deep>>

\* A plausible slip: the pass returns without waiting for the goroutines.
PassReturnNoWait ==
  /\ pc = "wgWait"
  /\ pc' = "returned"
  /\ ret' = "nil"
  /\ UNCHANGED <<bgSeqExists, seqVars, seqDone, envVars, statVars, ctxDone,
                 setDriveCount, polls, passes, bpc, scanVars, calls, last,
                 sent, deep>>

\* wg.Wait() passes once every bucket goroutine is done; return nil.
PassReturn ==
  /\ pc = "wgWait"
  /\ \A b \in buckets : bpc[b] = "done"
  /\ pc' = "returned"
  /\ ret' = "nil"
  /\ UNCHANGED <<bgSeqExists, seqVars, seqDone, envVars, statVars, ctxDone, setDriveCount,
                 polls, passes, bpc, scanVars, calls, last, sent, deep>>

\* ---- healErasureSet: one bucket goroutine (lines 144-208)

\* bgSeq.sourceCh <- healSource{bucket: bucket.Name}
SendBucket(b) ==
  /\ bpc[b] = "send"
  /\ SendSource(healSource("pass", b, 0, 0, FALSE))
  /\ bpc' = [bpc EXCEPT ![b] = "walk"]
  /\ UNCHANGED <<bgSeqExists, seqDone, envVars, statVars, ctxDone, passVars, scanVars,
                 calls, last, deep>>

\* A plausible slip: one disk that is nil or fails to list ends the listing
\* of the bucket with no stream at all.
OpenStreamsAllOrNothing(failed) ==
  IF \E d \in Disks : disks[d] = "nil" \/ d \in failed
  THEN <<>>
  ELSE [d \in Disks |-> Stream(d, Listing(diskData[d]))]

\* The streams the listing goroutines of a bucket leave in entryChs when the
\* disks in failed return an error from WalkVersions: a nil disk and a failed
\* disk contribute none.  The reconciler treats its streams alike, so they
\* are kept in disk order whatever the order of the appends under mu.
OpenStreams(failed) ==
  LET opened == {d \in Disks : disks[d] # "nil" /\ d \notin failed}
      F[d \in 0..SetDriveCount] ==
        IF d = 0 THEN <<>>
        ELSE IF d \in opened
             THEN Append(F[d - 1], Stream(d, Listing(diskData[d])))
             ELSE F[d - 1]
  IN F[SetDriveCount]

\* The listing goroutines of bucket b, one per disk, up to wwg.Wait(); then
\* entriesValid and entries are made (lines 152-179).  The goroutines touch
\* nothing but entryChs, so they are taken in one step.
WalkDisks(b, failed) ==
  /\ bpc[b] = "walk"
  /\ failed \subseteq {d \in Disks : disks[d] = "bad"}
  /\ entryChs' = [entryChs EXCEPT ![b] = OpenStreams(failed)]
  /\ entriesValid' = [entriesValid EXCEPT ![b] =
                        [i \in 1..Len(OpenStreams(failed)) |-> FALSE]]
  /\ entries' = [entries EXCEPT ![b] =
                   [i \in 1..Len(OpenStreams(failed)) |-> NoEntry]]
  /\ bpc' = [bpc EXCEPT ![b] = "next"]
  /\ UNCHANGED <<bgSeqExists, seqVars, seqDone, envVars, statVars, ctxDone, passVars,
                 cur, vi, reported, calls, last, sent, deep>>

\* A plausible slip: the version ID is left out of the heal source.
VersionSourceNoVersionID(b, e, i) ==
  healSource(b, b, e.Versions[i].Name, 0, FALSE)

\* The heal source of version i of entry e in bucket b (lines 194-200).
VersionSource(b, e, i) ==
  healSource(b, b, e.Versions[i].Name, e.Versions[i].VersionID, FALSE)

\* A plausible slip: the entry is skipped as soon as a majority agrees.
SkipEntryOnMajority(quorumCount) == 2 * quorumCount > setDriveCount

\* A plausible slip: the count is compared with the disks there now.
SkipEntryAgainstOnlineDisks(quorumCount) ==
  quorumCount = Cardinality({d \in Disks : disks[d] = "ok"})

\* A plausible slip: the comparison is strict, so nothing is ever skipped.
SkipEntryNever(quorumCount) == quorumCount > setDriveCount

\* The skip-or-heal decision (line 189).
SkipEntry(quorumCount) == quorumCount = setDriveCount

\* A plausible slip: return instead of continue.
SkipReturns == "done"

\* Where the goroutine goes after a skipped entry (line 190, continue).
SkipTo == "next"

\* A plausible slip: the goroutine ends without telling the wait group.
ScanFinishedWithoutDone(b) ==
  /\ bpc[b] = "next"
  /\ Exhausted(entryChs[b])
  /\ \E r \in {lexicallySortedEntryVersions(entryChs[b], NoEntry)} :
        /\ entryChs' = [entryChs EXCEPT ![b] = r.entryChs]
        /\ entries' = [entries EXCEPT ![b] = r.entries]
        /\ entriesValid' = [entriesValid EXCEPT ![b] = r.entriesValid]
  /\ UNCHANGED <<bgSeqExists, seqVars, seqDone, envVars, statVars, ctxDone,
                 passVars, bpc, cur, vi, reported, calls, last, sent, deep>>

\* The reconciler reports exhaustion: the goroutine returns.
ScanFinished(b) ==
  /\ bpc[b] = "next"
  /\ Exhausted(entryChs[b])
  /\ \E r \in {lexicallySortedEntryVersions(entryChs[b], NoEntry)} :
        /\ entryChs' = [entryChs EXCEPT ![b] = r.entryChs]
        /\ entries' = [entries EXCEPT ![b] = r.entries]
        /\ entriesValid' = [entriesValid EXCEPT ![b] = r.entriesValid]
  /\ bpc' = [bpc EXCEPT ![b] = "done"]
  /\ UNCHANGED <<bgSeqExists, seqVars, seqDone, envVars, statVars, ctxDone, passVars,
                 cur, vi, reported, calls, last, sent, deep>>

\* The reconciler returns an entry: it is skipped (continue), or the
\* goroutine calls queueHealTask for its first version.
ScanEntry(b) ==
  /\ bpc[b] = "next"
  /\ ~Exhausted(entryChs[b])
  /\ \E w \in Winners(entryChs[b]) :
       \E r \in {lexicallySortedEntryVersions(entryChs[b], w)} :
          /\ entryChs' = [entryChs EXCEPT ![b] = r.entryChs]
          /\ entries' = [entries EXCEPT ![b] = r.entries]
          /\ entriesValid' = [entriesValid EXCEPT ![b] = r.entriesValid]
          /\ reported' = [reported EXCEPT ![b] =
                            Append(@, [entry |-> r.entry, quorumCount |-> r.quorumCount])]
          /\ cur' = [cur EXCEPT ![b] = r.entry]
          /\ IF SkipEntry(r.quorumCount) \/ r.entry.Versions = <<>>
             THEN /\ bpc' = [bpc EXCEPT ![b] = SkipTo]
                  /\ UNCHANGED <<vi, calls>>
             ELSE /\ bpc' = [bpc EXCEPT ![b] = "put"]
                  /\ vi' = [vi EXCEPT ![b] = 1]
                  /\ calls' = [calls EXCEPT ![b] = Append(@, VersionSource(b, r.entry, 1))]
  /\ UNCHANGED <<bgSeqExists, seqVars, seqDone, envVars, statVars, ctxDone, passVars,
                 last, sent, deep>>

\* ---- queueHealTask, as called at line 201

\* A plausible slip: the goroutine returns on the first error of a call.
AfterCallAbortOnError(b, err) ==
  /\ last' = [last EXCEPT ![b] =
                [call |-> VersionSource(b, cur[b], vi[b]), err |-> err]]
  /\ IF err # "nil"
     THEN /\ bpc' = [bpc EXCEPT ![b] = "done"]
          /\ UNCHANGED <<vi, calls>>
     ELSE IF vi[b] < Len(cur[b].Versions)
     THEN /\ vi' = [vi EXCEPT ![b] = @ + 1]
          /\ calls' = [calls EXCEPT ![b] = Append(@, VersionSource(b, cur[b], vi[b] + 1))]
          /\ bpc' = [bpc EXCEPT ![b] = "put"]
     ELSE /\ bpc' = [bpc EXCEPT ![b] = "next"]
          /\ UNCHANGED <<vi, calls>>

\* A plausible slip: an error ends the loop over the versions of the entry.
AfterCallBreakOnError(b, err) ==
  /\ last' = [last EXCEPT ![b] =
                [call |-> VersionSource(b, cur[b], vi[b]), err |-> err]]
  /\ IF vi[b] < Len(cur[b].Versions) /\ err = "nil"
     THEN /\ vi' = [vi EXCEPT ![b] = @ + 1]
          /\ calls' = [calls EXCEPT ![b] = Append(@, VersionSource(b, cur[b], vi[b] + 1))]
          /\ bpc' = [bpc EXCEPT ![b] = "put"]
     ELSE /\ bpc' = [bpc EXCEPT ![b] = "next"]
          /\ UNCHANGED <<vi, calls>>

\* The call for version vi[b] has returned err (the error, if any, is at
\* most logged): the loop over the versions goes on with the next version,
\* and after the last one with the next entry.
AfterCall(b, err) ==
  /\ last' = [last EXCEPT ![b] =
                [call |-> VersionSource(b, cur[b], vi[b]), err |-> err]]
  /\ IF vi[b] < Len(cur[b].Versions)
     THEN /\ vi' = [vi EXCEPT ![b] = @ + 1]
          /\ calls' = [calls EXCEPT ![b] = Append(@, VersionSource(b, cur[b], vi[b] + 1))]
          /\ bpc' = [bpc EXCEPT ![b] = "put"]
     ELSE /\ bpc' = [bpc EXCEPT ![b] = "next"]
          /\ UNCHANGED <<vi, calls>>

\* A plausible slip: only the caller's ctx is looked at.
IsCancelledCtxOnly == ctxDone

\* A plausible slip: only the sequence's scope is looked at.
IsCancelledSeqOnly == seqDone

\* Either cancellation scope queueHealTask looks at is cancelled.
IsCancelled == seqDone \/ ctxDone

\* The source is placed on the task queue.
QueuePut(b) ==
  /\ bpc[b] = "put"
  /\ ~IsCancelled
  /\ ~Full(sourceCh)
  /\ sourceCh' = Append(sourceCh, VersionSource(b, cur[b], vi[b]))
  /\ bpc' = [bpc EXCEPT ![b] = "wait"]
  /\ UNCHANGED <<bgSeqExists, respCh, seqWaiting, recorded, seqDone,
                 envVars, statVars, ctxDone, passVars, scanVars, calls, last, sent, deep>>

\* Cancelled before the source is placed.
QueuePutCancelled(b) ==
  /\ bpc[b] = "put"
  /\ IsCancelled
  /\ AfterCall(b, Cancelled)
  /\ UNCHANGED <<bgSeqExists, seqVars, seqDone, envVars, statVars, ctxDone, passVars,
                 entryChs, entries, entriesValid, cur, reported, sent,
                 deep>>

\* A result arrives on respCh: it is recorded and the call returns its error.
QueueResult(b) ==
  /\ bpc[b] = "wait"
  /\ ~IsCancelled
  /\ respCh # <<>>
  /\ respCh' = Tail(respCh)
  /\ recorded' = recorded \cup {Head(respCh).task}
  /\ AfterCall(b, Head(respCh).err)
  /\ UNCHANGED <<bgSeqExists, sourceCh, seqWaiting, seqDone, envVars, statVars,
                 ctxDone, passVars, entryChs, entries, entriesValid,
                 cur, reported, sent, deep>>

\* Cancelled while waiting for the result.
QueueWaitCancelled(b) ==
  /\ bpc[b] = "wait"
  /\ IsCancelled
  /\ AfterCall(b, Cancelled)
  /\ UNCHANGED <<bgSeqExists, seqVars, seqDone, envVars, statVars, ctxDone, passVars,
                 entryChs, entries, entriesValid, cur, reported, sent,
                 deep>>

\* ---- the heal worker and the sequence's own results

\* The heal worker takes the next task of the queue, heals and pushes exactly
\* one result.  The result of a source that was sent directly is awaited by
\* the sequence itself.
HealWorker(err) ==
  /\ sourceCh # <<>>
  /\ ~Full(respCh)
  /\ sourceCh' = Tail(sourceCh)
  /\ respCh' = Append(respCh, [task |-> Head(sourceCh), err |-> err])
  /\ seqWaiting' = IF Head(sourceCh).from \in BucketNames
                   THEN seqWaiting ELSE seqWaiting + 1
  /\ UNCHANGED <<bgSeqExists, recorded, seqDone, envVars, statVars, ctxDone, passVars,
                 bpc, scanVars, calls, last, sent, deep>>

\* The sequence records a result it awaits.
SequenceResult ==
  /\ seqWaiting > 0
  /\ respCh # <<>>
  /\ respCh' = Tail(respCh)
  /\ recorded' = recorded \cup {Head(respCh).task}
  /\ seqWaiting' = seqWaiting - 1
  /\ UNCHANGED <<bgSeqExists, sourceCh, seqDone, envVars, statVars, ctxDone,
                 passVars, bpc, scanVars, calls, last, sent, deep>>

\* ---- the registry and the cancellation scopes

\* The background sequence is created and registered (newBgHealSequence).
newBgHealSequence ==
  /\ stateExists
  /\ ~bgSeqExists
  /\ bgSeqExists' = TRUE
  /\ UNCHANGED <<seqVars, seqDone, envVars, statVars, ctxDone, passVars, bpc, scanVars,
                 calls, last, sent, deep>>

\* hs.cancelCtx(): the sequence's scope is cancelled.
CancelSequence ==
  /\ bgSeqExists
  /\ ~seqDone
  /\ seqDone' = TRUE
  /\ UNCHANGED <<bgSeqExists, seqVars, envVars, statVars, ctxDone, passVars, bpc, scanVars,
                 calls, last, sent, deep>>

\* The pass's ctx is cancelled.
CancelPass ==
  /\ ~ctxDone
  /\ pc # "returned"
  /\ ctxDone' = TRUE
  /\ UNCHANGED <<bgSeqExists, seqVars, seqDone, envVars, statVars, passVars, bpc, scanVars,
                 calls, last, sent, deep>>

\* A stream opened with the cancelled ctx stops producing: what it has not
\* delivered yet is never delivered.
StreamStop(b, i) ==
  /\ ctxDone
  /\ bpc[b] \in {"next", "put", "wait"}
  /\ i \in 1..Len(entryChs[b])
  /\ entryChs[b][i].Ch # <<>>
  /\ entryChs' = [entryChs EXCEPT ![b][i] =
                    [@ EXCEPT !.Ch = <<>>,
                              !.Total = SubSeq(@, 1, Len(@) - Len(entryChs[b][i].Ch))]]
  /\ UNCHANGED <<bgSeqExists, seqVars, seqDone, envVars, statVars, ctxDone, passVars, bpc,
                 entries, entriesValid, cur, vi, reported, calls, last,
                 sent, deep>>

\* Disk d goes offline during the pass: the goroutines that list after this
\* find it nil.  One disk at most goes.
DiskOffline(d) ==
  /\ pc \in {"send1", "send2", "send3", "wgWait"}
  /\ \A x \in Disks : disks[x] = "ok"
  /\ disks' = [disks EXCEPT ![d] = "nil"]
  /\ UNCHANGED <<bgSeqExists, seqVars, seqDone, objLayer, diskData, buckets,
                 statVars, ctxDone, passVars, bpc, scanVars, calls, last, sent,
                 deep>>

\* ---- deepHealObject (lines 216-227)

\* A plausible slip: the source is sent whatever the lookup says.
deepHealObjectAlwaysSends(bucket, object, versionID) ==
  /\ Len(deep) < MaxDeep
  /\ deep' = Append(deep, [src |-> healSource("deep", bucket, object, versionID, TRUE),
                           ok |-> bgSeqExists,
                           state |-> "send"])
  /\ UNCHANGED <<bgSeqExists, seqVars, seqDone, envVars, statVars, ctxDone, passVars, bpc,
                 scanVars, calls, last, sent>>

\* The lookup of deepHealObject(bucket, object, versionID): with the sequence
\* it goes on to the send, without it the call returns.
deepHealObject(bucket, object, versionID) ==
  /\ Len(deep) < MaxDeep
  /\ deep' = Append(deep, [src |-> healSource("deep", bucket, object, versionID, TRUE),
                           ok |-> bgSeqExists,
                           state |-> IF bgSeqExists THEN "send" ELSE "returned"])
  /\ UNCHANGED <<bgSeqExists, seqVars, seqDone, envVars, statVars, ctxDone, passVars, bpc,
                 scanVars, calls, last, sent>>

\* bgSeq.sourceCh <- healSource{...}: the send of request i.
DeepSend(i) ==
  /\ i \in 1..Len(deep)
  /\ deep[i].state = "send"
  /\ ~Full(sourceCh)
  /\ sourceCh' = Append(sourceCh, deep[i].src)
  /\ deep' = [deep EXCEPT ![i].state = "returned"]
  /\ UNCHANGED <<bgSeqExists, respCh, seqWaiting, recorded, seqDone,
                 envVars, statVars, ctxDone, passVars, bpc, scanVars, calls, last, sent>>

\* ---- getLocalBackgroundHealStatus (lines 66-98)

\* The endpoints of disks: String() leaves IsLocal out, so two endpoints may
\* share one string.
Endpoints ==
  {[Host |-> "h1", Path |-> "/d1", IsLocal |-> TRUE],
   [Host |-> "h1", Path |-> "/d1", IsLocal |-> FALSE],
   [Host |-> "h1", Path |-> "/d2", IsLocal |-> TRUE]}

\* ep.String(): host and path.
EndpointString(ep) == <<ep.Host, ep.Path>>

\* What getLocalDisksToHeal() and getHealLocalDisks() may return.
EndpointLists == UNION {[1..n -> Endpoints] : n \in 0..MaxEndpoints}

RECURSIVE AddAll(_, _)
\* The loop of lines 77-79 over list l, on map m (a set of keys).
AddAll(m, l) ==
  IF l = <<>> THEN m
  ELSE AddAll(m \cup {EndpointString(Head(l))}, Tail(l))

RECURSIVE AddMissing(_, _)
\* The loop of lines 81-85 over list l, on map m.
AddMissing(m, l) ==
  IF l = <<>> THEN m
  ELSE AddMissing(IF EndpointString(Head(l)) \notin m
                  THEN m \cup {EndpointString(Head(l))}
                  ELSE m,
                  Tail(l))

\* A plausible slip: the registry's disks are left out.
HealDisksMapProbeOnly(probe, registry) == AddAll({}, probe)

\* healDisksMap after both loops: probe is what getLocalDisksToHeal()
\* returned, registry what getHealLocalDisks() returned.
HealDisksMap(probe, registry) == AddMissing(AddAll({}, probe), registry)

\* The slices the loop of lines 88-90 may build from map m: its keys, each
\* once, in any order.
Slices(m) ==
  {sl \in [1..Cardinality(m) -> m] :
     \A i, j \in 1..Cardinality(m) : i # j => sl[i] # sl[j]}

ZeroTime == [wall |-> 0, ext |-> 0]

\* madmin.BgHealState{}, false
NoSnap ==
  [ok |-> FALSE, ScannedItemsCount |-> 0, LastHealActivity |-> ZeroTime,
   HealDisks |-> <<>>]

\* The locals of a call that has not got to the lists.
NoStatus ==
  [pc |-> "idle", probe |-> <<>>, registry |-> <<>>, healDisks |-> <<>>,
   scanned |-> 0, raced |-> FALSE]

\* Lines 67-74: no registry, or no background sequence in it.
StatusUnavailable ==
  /\ status.pc = "idle"
  /\ ~stateExists \/ ~bgSeqExists
  /\ snap' = NoSnap
  /\ status' = NoStatus
  /\ UNCHANGED <<bgSeqExists, seqVars, seqDone, envVars, ctxDone, passVars, bpc,
                 scanVars, calls, last, sent, deep, stateExists, mutex,
                 scannedItems, lastHealActivity, wpc>>

\* Lines 67-90: the sequence is found, the two lists are read and healDisks
\* is built.
StatusCollect(probe, registry) ==
  /\ status.pc = "idle"
  /\ stateExists
  /\ bgSeqExists
  /\ \E hd \in Slices(HealDisksMap(probe, registry)) :
       status' = [pc |-> "scanned", probe |-> probe, registry |-> registry,
                  healDisks |-> hd, scanned |-> 0, raced |-> FALSE]
  /\ snap' = NoSnap
  /\ UNCHANGED <<bgSeqExists, seqVars, seqDone, envVars, ctxDone, passVars, bpc,
                 scanVars, calls, last, sent, deep, stateExists, mutex,
                 scannedItems, lastHealActivity, wpc>>

\* Line 93: bgSeq.getScannedItemsCount(), which sums the counters under the
\* sequence's mutex.
StatusScanned ==
  /\ status.pc = "scanned"
  /\ mutex = "free"
  /\ status' = [status EXCEPT !.pc = "return", !.scanned = scannedItems]
  /\ UNCHANGED <<bgSeqExists, seqVars, seqDone, envVars, ctxDone, passVars, bpc,
                 scanVars, calls, last, sent, deep, stateExists, mutex,
                 scannedItems, lastHealActivity, wpc, snap>>

\* Lines 92-97: bgSeq.lastHealActivity is read as a plain field, whoever
\* holds the mutex, and the state is returned.  The read
\* takes the words of the time as they are, also between the two writes of
\* an update.
StatusReturn ==
  /\ status.pc = "return"
  /\ snap' = [ok |-> TRUE, ScannedItemsCount |-> status.scanned,
              LastHealActivity |-> lastHealActivity,
              HealDisks |-> status.healDisks]
  /\ status' = [status EXCEPT !.pc = "idle", !.raced = (mutex = "held")]
  /\ UNCHANGED <<bgSeqExists, seqVars, seqDone, envVars, ctxDone, passVars, bpc,
                 scanVars, calls, last, sent, deep, stateExists, mutex,
                 scannedItems, lastHealActivity, wpc>>

\* ---- the updates of the sequence's counters

\* An update begins: the mutex is taken and the scanned count goes up.
ActivityLock ==
  /\ bgSeqExists
  /\ wpc = "idle"
  /\ mutex = "free"
  /\ scannedItems < MaxWrites
  /\ mutex' = "held"
  /\ scannedItems' = scannedItems + 1
  /\ wpc' = "wall"
  /\ UNCHANGED <<bgSeqExists, seqVars, seqDone, envVars, ctxDone, passVars, bpc,
                 scanVars, calls, last, sent, deep, stateExists,
                 lastHealActivity, status, snap>>

\* lastHealActivity = UTCNow(), first word.
ActivityWall ==
  /\ wpc = "wall"
  /\ lastHealActivity' = [lastHealActivity EXCEPT !.wall = scannedItems]
  /\ wpc' = "ext"
  /\ UNCHANGED <<bgSeqExists, seqVars, seqDone, envVars, ctxDone, passVars, bpc,
                 scanVars, calls, last, sent, deep, stateExists, mutex,
                 scannedItems, status, snap>>

\* lastHealActivity = UTCNow(), second word; the mutex is released.
ActivityUnlock ==
  /\ wpc = "ext"
  /\ lastHealActivity' = [lastHealActivity EXCEPT !.ext = scannedItems]
  /\ mutex' = "free"
  /\ wpc' = "idle"
  /\ UNCHANGED <<bgSeqExists, seqVars, seqDone, envVars, ctxDone, passVars, bpc,
                 scanVars, calls, last, sent, deep, stateExists,
                 scannedItems, status, snap>>

\* globalBackgroundHealState is set at startup.
initHealState ==
  /\ ~stateExists
  /\ stateExists' = TRUE
  /\ UNCHANGED <<bgSeqExists, seqVars, seqDone, envVars, ctxDone, passVars, bpc,
                 scanVars, calls, last, sent, deep, mutex, scannedItems,
                 lastHealActivity, wpc, status, snap>>

\* ---- initial states

\* The healed layout: every disk holds every key with the same version list.
Healed == [d \in Disks |-> [k \in Keys |-> <<1>>]]

\* The cells in which layout data differs from the healed layout.
Damage(data) == {c \in Disks \X Keys : data[c[1]][c[2]] # Healed[c[1]][c[2]]}

\* The layouts with at most n damaged cells.
Layouts(n) == {data \in [Disks -> [Keys -> Cells]] : Cardinality(Damage(data)) <= n}

\* The disks arguments with at most one disk that is nil or fails to list.
DiskSets ==
  {ds \in [Disks -> {"ok", "nil", "bad"}] :
     Cardinality({d \in Disks : ds[d] # "ok"}) <= 1}

InitFrom(states, seqs, objs, bucketSets, diskSets, layouts) ==
  /\ stateExists \in states
  /\ mutex = "free"
  /\ scannedItems = 0
  /\ lastHealActivity = ZeroTime
  /\ wpc = "idle"
  /\ status = NoStatus
  /\ snap = NoSnap
  /\ bgSeqExists \in seqs
  /\ objLayer \in objs
  /\ buckets \in bucketSets
  /\ disks \in diskSets
  /\ diskData \in layouts
  /\ sourceCh = <<>>
  /\ respCh = <<>>
  /\ seqWaiting = 0
  /\ recorded = {}
  /\ seqDone = FALSE
  /\ ctxDone = FALSE
  /\ pc = "idle"
  /\ ret = "none"
  /\ setDriveCount = 0
  /\ polls = 0
  /\ passes = 0
  /\ bpc = [b \in BucketNames |-> "idle"]
  /\ entryChs = [b \in BucketNames |-> <<>>]
  /\ entries = [b \in BucketNames |-> <<>>]
  /\ entriesValid = [b \in BucketNames |-> <<>>]
  /\ cur = [b \in BucketNames |-> NoEntry]
  /\ vi = [b \in BucketNames |-> 0]
  /\ reported = [b \in BucketNames |-> <<>>]
  /\ calls = [b \in BucketNames |-> <<>>]
  /\ last = [b \in BucketNames |-> NoCall]
  /\ sent = [src \in DirectSources |-> 0]
  /\ deep = <<>>

\* The initial states of a process whose registry is there.
InitWith(seqs, objs, bucketSets, diskSets, layouts) ==
  InitFrom({TRUE}, seqs, objs, bucketSets, diskSets, layouts)

\* ---- the steps, by component

\* The first pass.
StartPass == pc = "idle" /\ BeginPass

\* A further pass over the same set, after the previous one has returned.
RepeatPass == pc = "returned" /\ BeginPass

PassStep ==
  \/ StartPass
  \/ SequenceFound
  \/ SendBackendEncrypted
  \/ SendConfigPrefix
  \/ SendBucketConfigPrefix
  \/ PassReturn

BucketStep ==
  \/ \E b \in BucketNames : SendBucket(b)
  \/ \E b \in BucketNames, failed \in SUBSET Disks : WalkDisks(b, failed)
  \/ \E b \in BucketNames : ScanFinished(b)
  \/ \E b \in BucketNames : ScanEntry(b)
  \/ \E b \in BucketNames : QueuePut(b)
  \/ \E b \in BucketNames : QueueResult(b)

WorkerStep ==
  \/ \E err \in HealErrs : HealWorker(err)
  \/ SequenceResult

StartupStep ==
  \/ ObjectLayerNil
  \/ SequenceMissing
  \/ PollTimeout
  \/ newBgHealSequence

CancelStep ==
  \/ CancelSequence
  \/ CancelPass
  \/ PollCancelled
  \/ \E b \in BucketNames : QueuePutCancelled(b)
  \/ \E b \in BucketNames : QueueWaitCancelled(b)
  \/ \E b \in BucketNames, i \in 1..SetDriveCount : StreamStop(b, i)

\* The requests are for different object versions.
DeepStep ==
  \/ \E o \in Keys, v \in {0, 1} :
       /\ \A i \in 1..Len(deep) : deep[i].src # healSource("deep", "b1", o, v, TRUE)
       /\ deepHealObject("b1", o, v)
  \/ \E i \in 1..MaxDeep : DeepSend(i)

\* Snapshots are taken until one is ok.
StatusStep ==
  \/ StatusUnavailable
  \/ /\ ~snap.ok
     /\ \E probe, registry \in EndpointLists : StatusCollect(probe, registry)
  \/ StatusScanned
  \/ StatusReturn

ActivityStep ==
  \/ ActivityLock
  \/ ActivityWall
  \/ ActivityUnlock

AllOk == [d \in Disks |-> "ok"]

\* ---- Spec: one pass over two buckets, from process start (the sequence
\* and the object layer may not be there yet), with a disk that may fail
\* to list and a worker that may fail to heal; nothing is cancelled.
SpecLayouts ==
  {Healed, [Healed EXCEPT ![SetDriveCount][1] = <<>>],
   [Healed EXCEPT ![1][NumKeys] = <<2, 1>>]}

Init ==
  InitWith({FALSE}, BOOLEAN, {BucketNames},
           {AllOk, [AllOk EXCEPT ![2] = "bad"], [AllOk EXCEPT ![1] = "nil"]},
           SpecLayouts)

Next == PassStep \/ BucketStep \/ WorkerStep \/ StartupStep

Spec == Init /\ [][Next]_vars

\* The disks arguments of the scans: any one disk nil, or disk 2 failing.
ScanDiskSets == {ds \in DiskSets : \A d \in Disks : ds[d] = "bad" => d = 2}

\* ---- SpecScan: a pass over one bucket of a running server, over
\* every layout with at most two damaged cells and at most one disk that is
\* nil or fails to list; nothing is cancelled.
InitScan == InitWith({TRUE}, {TRUE}, {{"b1"}}, ScanDiskSets, Layouts(2))

NextScan == PassStep \/ BucketStep \/ WorkerStep

SpecScan == InitScan /\ [][NextScan]_vars

\* ---- SpecCancel: one pass over one bucket, from process start, in which
\* the pass's ctx and the sequence's scope may be cancelled at any time.
InitCancel ==
  InitWith({FALSE}, BOOLEAN, {{"b1"}}, {AllOk},
           {[Healed EXCEPT ![SetDriveCount][1] = <<>>]})

NextCancel == PassStep \/ BucketStep \/ WorkerStep \/ StartupStep \/ CancelStep

SpecCancel == InitCancel /\ [][NextCancel]_vars

\* ---- SpecDeep: deepHealObject requests around the creation of the
\* sequence, with the heal worker running.
InitDeep == InitWith({FALSE}, {TRUE}, {{"b1"}}, {AllOk}, {Healed})

NextDeep == DeepStep \/ newBgHealSequence \/ WorkerStep

SpecDeep == InitDeep /\ [][NextDeep]_vars

\* ---- what the streams of a bucket hold, read off the streams themselves

KeysOf(list) == {list[j].Name : j \in 1..Len(list)}

\* The streams of bucket b that report key k.
Holders(b, k) == {i \in 1..Len(entryChs[b]) : k \in KeysOf(entryChs[b][i].Total)}

\* The version list stream i of bucket b reports for key k.
VersionsAt(b, i, k) ==
  LET t == entryChs[b][i].Total
  IN t[CHOOSE j \in 1..Len(t) : t[j].Name = k].Versions

\* The size of the largest group of streams reporting one version list for k.
LargestGroup(b, k) ==
  MaxOf({Cardinality({j \in Holders(b, k) : VersionsAt(b, j, k) = VersionsAt(b, i, k)})
           : i \in Holders(b, k)})

\* The version lists of the largest groups.
LargestVersions(b, k) ==
  {VersionsAt(b, i, k) : i \in {h \in Holders(b, k) :
     Cardinality({j \in Holders(b, k) : VersionsAt(b, j, k) = VersionsAt(b, h, k)})
       = LargestGroup(b, k)}}

\* The queueHealTask calls of bucket b for key k, in order.
CallsFor(b, k) == SelectSeq(calls[b], LAMBDA c : c.object = k)

\* One heal source per version of entry e: bucket, the version's name and ID.
OnePerVersion(b, e) ==
  [i \in 1..Len(e.Versions) |->
     [from |-> b, bucket |-> b, object |-> e.Versions[i].Name,
      versionID |-> e.Versions[i].VersionID, deep |-> FALSE]]

\* Entry r of reported[b] is the one whose versions are being queued.
InProgress(b, r) == r = Len(reported[b]) /\ bpc[b] \in {"put", "wait"}

\* The calls due for entry r of reported[b] so far: all of them once the
\* loop is past the entry, those up to the current version before.
CallsDue(b, r) ==
  IF InProgress(b, r)
  THEN SubSeq(OnePerVersion(b, reported[b][r].entry), 1, vi[b])
  ELSE OnePerVersion(b, reported[b][r].entry)

ReportedKeys(b) == [r \in 1..Len(reported[b]) |-> reported[b][r].entry.Name]

\* C1: for every key the reconciler has returned on which the largest group
\* of streams reporting one version list has size M < N (N the opened streams),
\* the reported quorum count is M, the returned entry is that of a largest
\* group, and the queueHealTask calls for the key are exactly one per version
\* of the returned entry, with the bucket, the version's name and its ID.
C1_HealBelowQuorum ==
  \A b \in BucketNames : \A r \in 1..Len(reported[b]) :
    LET e == reported[b][r].entry
        k == e.Name
    IN LargestGroup(b, k) < Len(entryChs[b]) =>
         /\ reported[b][r].quorumCount = LargestGroup(b, k)
         /\ e.Versions \in LargestVersions(b, k)
         /\ CallsFor(b, k) = CallsDue(b, r)

\* A bucket is done after a key with two streams agreeing on a two-version
\* list and a third differing was healed.
C1_Witness ==
  \E b \in BucketNames : \E r \in 1..Len(reported[b]) :
    /\ bpc[b] = "done"
    /\ Len(entryChs[b]) = 3
    /\ reported[b][r].quorumCount = 2
    /\ Len(reported[b][r].entry.Versions) = 2
    /\ Len(CallsFor(b, reported[b][r].entry.Name)) = 2

\* All N opened streams of bucket b report key k with one version list.
AllAgree(b, k) ==
  /\ Holders(b, k) = 1..Len(entryChs[b])
  /\ LargestGroup(b, k) = Len(entryChs[b])

\* C2 as stated: for every key on which all N opened streams report identical
\* version lists the quorum count is N and no queueHealTask call is made.
C2_Original ==
  \A b \in BucketNames : \A r \in 1..Len(reported[b]) :
    LET k == reported[b][r].entry.Name
    IN AllAgree(b, k) =>
         /\ reported[b][r].quorumCount = Len(entryChs[b])
         /\ CallsFor(b, k) = <<>>

\* C2 amended: for every key on which all N opened streams report identical
\* version lists the quorum count is N; no queueHealTask call is made for the
\* key when N is the set's drive count, and one per version is made when a
\* disk contributed no stream (N below the drive count).
C2_SkipAtFullQuorum ==
  \A b \in BucketNames : \A r \in 1..Len(reported[b]) :
    LET k == reported[b][r].entry.Name
    IN AllAgree(b, k) =>
         /\ reported[b][r].quorumCount = Len(entryChs[b])
         /\ Len(entryChs[b]) = SetDriveCount => CallsFor(b, k) = <<>>
         /\ Len(entryChs[b]) < SetDriveCount => CallsFor(b, k) = CallsDue(b, r)

\* A bucket of a set with every disk listed is done, having skipped a key on
\* which the three streams agree and healed another.
C2_Witness ==
  \E b \in BucketNames : \E r \in 1..Len(reported[b]) :
    /\ bpc[b] = "done"
    /\ Len(entryChs[b]) = SetDriveCount
    /\ AllAgree(b, reported[b][r].entry.Name)
    /\ calls[b] # <<>>

\* The keys the streams of bucket b report.
StreamKeys(b) == UNION {KeysOf(entryChs[b][i].Total) : i \in 1..Len(entryChs[b])}

StrictlyIncreasing(seq) == \A i, j \in 1..Len(seq) : i < j => seq[i] < seq[j]

Drained(b) ==
  \A i \in 1..Len(entryChs[b]) :
    /\ entryChs[b][i].Ch = <<>>
    /\ entryChs[b][i].Pushed = <<>>
    /\ ~entriesValid[b][i]

\* C3: the keys of the entries the reconciler returns for a bucket are
\* keys of the streams, in increasing order and so each once; when the loop
\* has ended (ok = false) they are all the keys of the streams, and no
\* stream has an entry left.
C3_EveryKeyOnceInOrder ==
  \A b \in BucketNames :
    /\ StrictlyIncreasing(ReportedKeys(b))
    /\ SeqToSet(ReportedKeys(b)) \subseteq StreamKeys(b)
    /\ bpc[b] = "done" => /\ SeqToSet(ReportedKeys(b)) = StreamKeys(b)
                          /\ Drained(b)

\* A bucket is done over streams two of which share no key.
C3_Witness ==
  \E b \in BucketNames :
    /\ bpc[b] = "done"
    /\ Len(reported[b]) = NumKeys
    /\ \E i, j \in 1..Len(entryChs[b]) :
         /\ KeysOf(entryChs[b][i].Total) # {}
         /\ KeysOf(entryChs[b][j].Total) # {}
         /\ KeysOf(entryChs[b][i].Total) \cap KeysOf(entryChs[b][j].Total) = {}

\* ---- SpecDrop: SpecScan over the layouts with one damaged cell at most,
\* with goroutines and a heal worker that keep running while they can.
InitDrop == InitWith({TRUE}, {TRUE}, {{"b1"}}, ScanDiskSets, Layouts(1))

SpecDrop == InitDrop /\ [][NextScan]_vars /\ WF_vars(NextScan)

\* The keys of the disks that are there and list.
SurvivorKeys == UNION {KeysOf(Listing(diskData[d])) : d \in {x \in Disks : disks[x] = "ok"}}

\* C4: once the listing goroutines of a bucket have left fewer streams than
\* the set has disks (a disk is nil or its WalkVersions failed), the loop of
\* the bucket still ends, with every key of every surviving disk returned.
C4_DroppedDiskDoesNotBlock ==
  \A b \in BucketNames :
    (bpc[b] = "next" /\ Len(entryChs[b]) < SetDriveCount)
      ~> (/\ bpc[b] = "done"
          /\ SurvivorKeys \cup StreamKeys(b) \subseteq SeqToSet(ReportedKeys(b)))

\* A bucket is done with two streams only, and keys returned.
C4_Witness ==
  \E b \in BucketNames :
    /\ bpc[b] = "done"
    /\ Len(entryChs[b]) = SetDriveCount - 1
    /\ Len(reported[b]) = NumKeys
    /\ \E d \in Disks : disks[d] = "bad"

\* ---- SpecHealed: repeated passes over two buckets of a running server,
\* over the healed set and over sets with one damaged cell or an absent disk.
InitHealed ==
  InitWith({TRUE}, {TRUE}, {BucketNames}, {AllOk, [AllOk EXCEPT ![1] = "nil"]},
           {Healed, [Healed EXCEPT ![SetDriveCount][1] = <<>>]})

NextHealed == PassStep \/ RepeatPass \/ BucketStep \/ WorkerStep

SpecHealed == InitHealed /\ [][NextHealed]_vars

\* Every disk of the set is there and all disks hold the same for every key.
HealedSet ==
  /\ \A d \in Disks : disks[d] = "ok"
  /\ \A k \in Keys : \A d1, d2 \in Disks : diskData[d1][k] = diskData[d2][k]

\* The sources of object versions anywhere in the sequence.
VersionTasks ==
  {t \in SeqToSet(sourceCh) \cup {r.task : r \in SeqToSet(respCh)} \cup recorded :
     t.from \in BucketNames}

\* C5: in every pass over an already-healed set, the first and every repeated
\* one, no queueHealTask call is made and no object version is queued.
C5_HealedSetQueuesNothing ==
  HealedSet => /\ \A b \in BucketNames : calls[b] = <<>>
               /\ VersionTasks = {}

\* A second pass over the healed set has returned, every key returned in
\* every bucket.
C5_Witness ==
  /\ HealedSet
  /\ passes >= 2
  /\ pc = "returned"
  /\ \A b \in buckets : Len(reported[b]) = NumKeys

\* ---- SpecCancelFair: SpecCancel in which a queueHealTask call that can
\* return Cancelled does so; nothing is assumed of the heal worker, which
\* may never take a task.
SpecCancelFair ==
  /\ SpecCancel
  /\ \A b \in BucketNames : WF_vars(QueuePutCancelled(b))
  /\ \A b \in BucketNames : WF_vars(QueueWaitCancelled(b))

\* The sources queueHealTask may be called with.
VersionSources ==
  {healSource(b, b, k, v, FALSE) : b \in BucketNames, k \in Keys, v \in {1, 2}}

\* Bucket b's goroutine is inside queueHealTask(c).
InCall(b, c) ==
  /\ bpc[b] \in {"put", "wait"}
  /\ VersionSource(b, cur[b], vi[b]) = c

\* C6: a queueHealTask call that finds the sequence's scope or the pass's
\* ctx cancelled, on entry or while it waits for its result, returns, and
\* what it returns is Cancelled; this needs no step of the heal worker.
C6_CancelledEnqueueReturns ==
  /\ [][\A b \in BucketNames :
          (bpc[b] \in {"put", "wait"} /\ (seqDone \/ ctxDone) /\ last'[b] # last[b])
            => last'[b].err = Cancelled]_vars
  /\ \A b \in BucketNames : \A c \in VersionSources :
       (InCall(b, c) /\ (seqDone \/ ctxDone))
         ~> (last[b] = [call |-> c, err |-> Cancelled])

\* A call has returned Cancelled on the sequence's scope alone while its
\* source still sits on the task queue, taken by no worker.
C6_Witness ==
  \E b \in BucketNames :
    /\ last[b].err = Cancelled
    /\ seqDone
    /\ ~ctxDone
    /\ last[b].call \in SeqToSet(sourceCh)

InSequence ==
  SeqToSet(sourceCh) \cup {r.task : r \in SeqToSet(respCh)} \cup recorded

\* C8: a deepHealObject request made while the sequence is not registered
\* has returned, its source is on no queue and is never recorded, also after
\* the sequence is created; the request itself leaves the registry and the
\* task queue as they are.
C8_DeepHealDroppedWithoutSequence ==
  /\ [](\A i \in 1..Len(deep) :
          ~deep[i].ok => /\ deep[i].state = "returned"
                         /\ deep[i].src \notin InSequence)
  /\ [][Len(deep') > Len(deep) =>
          /\ bgSeqExists' = bgSeqExists
          /\ sourceCh' = sourceCh]_vars

\* A request was dropped, the sequence was created after it, and a later
\* request was healed and recorded.
C8_Witness ==
  \E i, j \in 1..Len(deep) :
    /\ i < j
    /\ ~deep[i].ok
    /\ deep[j].ok
    /\ deep[j].src \in recorded
    /\ bgSeqExists

\* The pass has submitted nothing: no direct send, no queueHealTask call.
NothingSubmitted ==
  /\ \A src \in DOMAIN sent : sent[src] = 0
  /\ \A b \in BucketNames : calls[b] = <<>>
  /\ sourceCh = <<>>

Processed(b) ==
  /\ bpc[b] = "done"
  /\ SurvivorKeys \cup StreamKeys(b) \subseteq SeqToSet(ReportedKeys(b))
  /\ \A r \in 1..Len(reported[b]) :
       reported[b][r].quorumCount # setDriveCount =>
         CallsFor(b, reported[b][r].entry.Name) = OnePerVersion(b, reported[b][r].entry)

\* C10 as stated: a pass that returns with the sequence available returns
\* nil, every bucket processed.
C10_Original ==
  (pc = "returned" /\ bgSeqExists) =>
    /\ ret = "nil"
    /\ \A b \in buckets : Processed(b)

\* C10 amended: a pass that is not cancelled and returns with the object
\* layer there returns nil with every bucket processed, whatever disk failed
\* to list and whatever the calls returned; with no object layer it returns
\* errServerNotInitialized and has submitted nothing.
C10_OnlyAbsentObjectLayerAborts ==
  pc = "returned" =>
    IF objLayer
    THEN /\ ret = "nil"
         /\ \A b \in buckets : Processed(b)
    ELSE /\ ret = "errServerNotInitialized"
         /\ NothingSubmitted

\* The pass has returned nil although disk 2 failed to list one bucket and a
\* call of the other bucket, listed on every disk, returned an error.
C10_Witness ==
  /\ pc = "returned"
  /\ ret = "nil"
  /\ disks[2] = "bad"
  /\ Len(entryChs["b1"]) = SetDriveCount - 1
  /\ Len(entryChs["b2"]) = SetDriveCount
  /\ last["b2"].err = "errOther"

\* ---- SpecStatus: status snapshots of a starting process, while the
\* counters of the sequence are updated.
InitStatus == InitFrom(BOOLEAN, {FALSE}, {TRUE}, {{"b1"}}, {AllOk}, {Healed})

NextStatus == StatusStep \/ ActivityStep \/ initHealState \/ newBgHealSequence

SpecStatus == InitStatus /\ [][NextStatus]_vars

\* The strings of the endpoints of list l.
Identities(l) == {EndpointString(l[i]) : i \in 1..Len(l)}

\* C11: a snapshot is not ok while the registry or the sequence is absent;
\* the HealDisks of an ok snapshot hold the string of every endpoint of the
\* probe's list and of the registry's list, nothing else, and none twice.
C11_HealDisksIsUnion ==
  /\ (~stateExists \/ ~bgSeqExists) => ~snap.ok
  /\ snap.ok =>
       /\ SeqToSet(snap.HealDisks)
            = Identities(status.probe) \cup Identities(status.registry)
       /\ Len(snap.HealDisks) = Cardinality(SeqToSet(snap.HealDisks))

\* An ok snapshot of two disks from two lists of two endpoints each that
\* name different disks and share one.
C11_Witness ==
  /\ snap.ok
  /\ Len(snap.HealDisks) = 2
  /\ Len(status.probe) = 2
  /\ Len(status.registry) = 2
  /\ Cardinality(Identities(status.probe)) = 1
  /\ Identities(status.probe) # Identities(status.registry)

\* ---- SpecCancelStop: SpecCancel in which a queueHealTask call that can
\* return Cancelled does so and a stream whose ctx is cancelled stops;
\* nothing is assumed of the heal worker.
SpecCancelStop ==
  /\ SpecCancel
  /\ \A b \in BucketNames : WF_vars(QueuePutCancelled(b))
  /\ \A b \in BucketNames : WF_vars(QueueWaitCancelled(b))
  /\ \A b \in BucketNames : \A i \in 1..SetDriveCount : WF_vars(StreamStop(b, i))

\* Stream i of bucket b is open and has entries it has not delivered.
Producing(b, i) ==
  /\ i \in 1..Len(entryChs[b])
  /\ entryChs[b][i].Ch # <<>>

\* C12: once the pass's ctx is cancelled, a queueHealTask call of the pass
\* that is in progress returns, and returns Cancelled; a stream that still
\* has entries to deliver comes to deliver no more; and no step, before or
\* after the cancellation, takes a result out of those recorded.
C12_PassCancellation ==
  /\ [][recorded \subseteq recorded']_vars
  /\ [][\A b \in BucketNames :
          (ctxDone /\ bpc[b] \in {"put", "wait"} /\ last'[b] # last[b])
            => last'[b].err = Cancelled]_vars
  /\ \A b \in BucketNames : \A c \in VersionSources :
       (ctxDone /\ InCall(b, c)) ~> (last[b] = [call |-> c, err |-> Cancelled])
  /\ \A b \in BucketNames : \A i \in 1..SetDriveCount :
       (ctxDone /\ Producing(b, i)) ~> ~Producing(b, i)

\* The pass's ctx alone is cancelled; a call has returned Cancelled, results
\* recorded before are still there, and a stream has stopped short of its
\* disk's listing.
C12_Witness ==
  /\ ctxDone
  /\ ~seqDone
  /\ recorded # {}
  /\ \E b \in BucketNames :
       /\ last[b].err = Cancelled
       /\ \E i \in 1..Len(entryChs[b]) :
            Len(entryChs[b][i].Total) < Len(Listing(diskData[entryChs[b][i].Disk]))

\* C13 as stated: the last-activity time of an ok snapshot was read while no
\* update held the mutex, and so is a time some update wrote whole (or the
\* zero time).
C13_ReadsSynchronised ==
  snap.ok => /\ ~status.raced
             /\ snap.LastHealActivity.wall = snap.LastHealActivity.ext

\* The heal operations in flight: the tasks on the task queue and the
\* results not yet recorded.
InFlight == Len(sourceCh) + Len(respCh)

\* C14 as stated: the heal operations in flight are never more than the
\* task queue holds.
C14_InFlightWithinCapacity == InFlight <= GOMAXPROCS

\* C15: when healErasureSet has returned no bucket goroutine of the pass is
\* running; a bucket goroutine past its listing has one entry slot per
\* opened stream; and no step after the return sends a source, calls
\* queueHealTask or reads a stream for the pass.
C15_ReturnAfterJoin ==
  /\ [](pc = "returned" => \A b \in BucketNames : bpc[b] \in {"idle", "done"})
  /\ [](\A b \in BucketNames :
          bpc[b] \in {"next", "put", "wait", "done"} =>
            /\ Len(entries[b]) = Len(entryChs[b])
            /\ Len(entriesValid[b]) = Len(entryChs[b]))
  /\ [][(pc = "returned" /\ pc' = "returned") =>
          /\ sent' = sent
          /\ calls' = calls
          /\ entryChs' = entryChs
          /\ reported' = reported]_vars

\* The pass has returned after both buckets made queueHealTask calls, with
\* results of the pass still to be recorded.
C15_Witness ==
  /\ pc = "returned"
  /\ ret = "nil"
  /\ \A b \in buckets : bpc[b] = "done" /\ calls[b] # <<>>
  /\ respCh # <<>>

\* How often the pass has sent its three system sources, in the order of the
\* code.
SystemSent ==
  <<sent[healSource("pass", minioMetaBucket, backendEncryptedFile, 0, FALSE)],
    sent[healSource("pass", minioConfigPrefix, 0, 0, FALSE)],
    sent[healSource("pass", bucketConfigPrefix, 0, 0, FALSE)]>>

\* How often the pass has sent the source of bucket b itself.
BucketSent(b) == sent[healSource("pass", b, 0, 0, FALSE)]

\* C16: the three system sources are sent once each, the marker file first,
\* then the config prefix, then the bucket-config prefix, all before any
\* bucket's source; a pass that returns nil has sent all three; and the
\* source of a bucket is sent exactly once by its goroutine, before its
\* listing and so before any queueHealTask call of the bucket.
C16_SystemAndBucketSourcesOnce ==
  /\ pc \in {"idle", "lookup", "select", "send1"} => SystemSent = <<0, 0, 0>>
  /\ pc = "send2" => SystemSent = <<1, 0, 0>>
  /\ pc = "send3" => SystemSent = <<1, 1, 0>>
  /\ pc = "wgWait" => SystemSent = <<1, 1, 1>>
  /\ pc = "returned" => SystemSent = IF ret = "nil" THEN <<1, 1, 1>> ELSE <<0, 0, 0>>
  /\ \A b \in BucketNames :
       /\ BucketSent(b) = IF bpc[b] \in {"idle", "send"} THEN 0 ELSE 1
       /\ BucketSent(b) > 0 => SystemSent = <<1, 1, 1>>
       /\ calls[b] # <<>> => BucketSent(b) = 1
       /\ (pc = "returned" /\ ret = "nil" /\ b \in buckets) => BucketSent(b) = 1

\* A pass over a set with an absent disk has returned, every source sent
\* once and versions queued in both buckets.
C16_Witness ==
  /\ pc = "returned"
  /\ ret = "nil"
  /\ disks[1] = "nil"
  /\ SystemSent = <<1, 1, 1>>
  /\ \A b \in buckets : BucketSent(b) = 1 /\ calls[b] # <<>>

\* ---- SpecErrors: a pass over one bucket of a set whose disk 1 is absent,
\* so that every version of every key is queued, with a heal worker that
\* may answer each task with any error.
ErrLayout == [d \in Disks |-> [k \in Keys |-> IF k = 1 THEN <<2, 1>> ELSE <<1>>]]

InitErrors ==
  InitWith({TRUE}, {TRUE}, {{"b1"}},
           {[AllOk EXCEPT ![1] = "nil"], [AllOk EXCEPT ![2] = "bad"]},
           {ErrLayout, [ErrLayout EXCEPT ![SetDriveCount][NumKeys] = <<>>]})

NextErrors ==
  \/ PassStep
  \/ BucketStep
  \/ \E err \in AdmissionErrs : HealWorker(err)
  \/ SequenceResult

SpecErrors == InitErrors /\ [][NextErrors]_vars

\* C17: whatever the calls before returned, every returned entry below the
\* drive count has had a call for each of its versions so far, a bucket's
\* loop ends only with every key of its streams returned, and the pass
\* returns nil.
C17_ErrorsDoNotStopBucket ==
  /\ \A b \in BucketNames : \A r \in 1..Len(reported[b]) :
       reported[b][r].quorumCount # setDriveCount =>
         CallsFor(b, reported[b][r].entry.Name) = CallsDue(b, r)
  /\ \A b \in BucketNames :
       bpc[b] = "done" => SeqToSet(ReportedKeys(b)) = StreamKeys(b)
  /\ pc = "returned" => ret = "nil"

\* The call for the first version of an entry returned a not-found error and
\* the call for its second version is made.
C17_Witness ==
  \E b \in BucketNames :
    /\ bpc[b] \in {"put", "wait"}
    /\ vi[b] = 2
    /\ last[b].err = "errObjectNotFound"
    /\ last[b].call = VersionSource(b, cur[b], 1)

\* ---- SpecOffline: a pass over two buckets of a running server during
\* which a disk may go offline.
InitOffline ==
  InitWith({TRUE}, {TRUE}, {BucketNames}, {AllOk},
           {Healed, [Healed EXCEPT ![SetDriveCount][1] = <<>>]})

NextOffline ==
  \/ PassStep
  \/ BucketStep
  \/ WorkerStep
  \/ \E d \in Disks : DiskOffline(d)

SpecOffline == InitOffline /\ [][NextOffline]_vars

\* C18: from the read of line 123 to the return the pass's setDriveCount is
\* the set's drive count and no step changes it, whatever disk goes offline;
\* and a returned entry is left without queueHealTask call exactly when its
\* quorum count is that drive count.
C18_QuorumTargetFixed ==
  /\ [](pc \in {"send1", "send2", "send3", "wgWait"} => setDriveCount = SetDriveCount)
  /\ [][(pc \in {"send1", "send2", "send3", "wgWait"})
          => (setDriveCount' = setDriveCount)]_vars
  /\ [](\A b \in BucketNames : \A r \in 1..Len(reported[b]) :
          (CallsFor(b, reported[b][r].entry.Name) = <<>>)
            <=> (reported[b][r].quorumCount = SetDriveCount))

\* A disk went offline between the listings of the two buckets: one bucket
\* was listed on every disk and skipped its keys, the other was listed on
\* two disks and queued them.
C18_Witness ==
  /\ pc = "returned"
  /\ \E d \in Disks : disks[d] = "nil"
  /\ \E b1, b2 \in buckets :
       /\ Len(entryChs[b1]) = SetDriveCount
       /\ Len(reported[b1]) = NumKeys
       /\ calls[b1] = <<>>
       /\ Len(entryChs[b2]) = SetDriveCount - 1
       /\ Len(calls[b2]) = NumKeys

\* ---- SpecLive: a pass over two buckets of a running server, nothing
\* cancelled, in which the pass, the bucket goroutines and the heal worker
\* with the sequence's recording each go on while they can.
InitLive ==
  InitWith({TRUE}, {TRUE}, {BucketNames}, {AllOk},
           {[Healed EXCEPT ![SetDriveCount][1] = <<>>],
            [Healed EXCEPT ![SetDriveCount] = [k \in Keys |-> <<>>]]})

\* The heal worker heals: every task is answered with nil.
WorkerHeals ==
  \/ HealWorker("nil")
  \/ SequenceResult

NextLive == PassStep \/ BucketStep \/ WorkerHeals

SpecLive ==
  /\ InitLive
  /\ [][NextLive]_vars
  /\ WF_vars(PassStep)
  /\ WF_vars(BucketStep)
  /\ WF_vars(WorkerHeals)

\* C19: a pass that has found the sequence and the object layer returns,
\* and returns nil.
C19_PassReturns ==
  (pc = "send1") ~> (pc = "returned" /\ ret = "nil")

\* The pass has returned after both buckets queued versions, every task
\* taken and every result recorded.
C19_Witness ==
  /\ pc = "returned"
  /\ sourceCh = <<>>
  /\ respCh = <<>>
  /\ \A b \in buckets : Len(calls[b]) = NumKeys

\* ---- SpecCancelNoWorker: SpecCancel in which the pass, its goroutines and
\* the cancellations go on while they can, and the heal worker may never
\* take a task.
SpecCancelNoWorker ==
  /\ SpecCancel
  /\ WF_vars(PassStep)
  /\ WF_vars(BucketStep)
  /\ WF_vars(StartupStep)
  /\ WF_vars(CancelStep)

\* C20 as stated: once the pass's ctx is cancelled, healErasureSet returns.
C20_CancelledPassReturns == ctxDone ~> (pc = "returned")
====
